---- MODULE Spec2Model ----
(***************************************************************************)
(* The knowledge-graph store of backend/convex: the tables entities,       *)
(* relations, knowledge and operations, and the mutations of entities.ts   *)
(* and relations.ts that write them.  A mutation is one Convex             *)
(* transaction: it runs to its end and commits, or it throws and none of   *)
(* its writes is kept.  Document ids are fresh per insert and never        *)
(* reused; the by_name / by_from / by_entity indexes return documents in   *)
(* creation order, which is the order of the ids here.  The fields         *)
(* updatedAt and journalIds are written but never read by the mutations    *)
(* and are left out of the documents.                                      *)
(***************************************************************************)
EXTENDS Integers, Sequences, FiniteSets

VARIABLES entities, relations, knowledge, operations,
          nextEntityId, nextRelationId, nextKnowledgeId, last

vars == <<entities, relations, knowledge, operations,
          nextEntityId, nextRelationId, nextKnowledgeId, last>>

\* ------------------------------------------------------------------ bounds
MaxBatch == 2
MaxEntities == 2
MaxRelations == 2
MaxLog == 7
MaxObs == 2

Names == {"a", "b"}
EntityTypes == {"person"}
RelationTypes == {"knows"}
ObservationValues == {"x", "y"}

NoId == 0

\* ------------------------------------------------------------- sequences
Range(s) == {s[i] : i \in 1..Len(s)}

RECURSIVE Dedup(_)
\* [...new Set(s)]: the first occurrence of every element, in order
Dedup(s) ==
    IF s = <<>> THEN <<>>
    ELSE LET front == Dedup(SubSeq(s, 1, Len(s) - 1))
             x == s[Len(s)]
         IN IF x \in Range(front) THEN front ELSE Append(front, x)

MapSeq(s, F(_)) == [i \in 1..Len(s) |-> F(s[i])]

Min(S) == CHOOSE x \in S : \A y \in S : x <= y

\* ------------------------------------------------------------ the database
Db == [entities |-> entities, relations |-> relations, knowledge |-> knowledge,
       operations |-> operations, nextEntityId |-> nextEntityId,
       nextRelationId |-> nextRelationId, nextKnowledgeId |-> nextKnowledgeId]

DocById(table, id) == CHOOSE d \in table : d.id = id

\* ctx.db.delete(id) for each id in turn; deleting an id that is not (or no
\* longer) in the table throws
DeleteOk(table, ids) ==
    /\ \A i \in 1..Len(ids) : \E d \in table : d.id = ids[i]
    /\ \A i, j \in 1..Len(ids) : ids[i] = ids[j] => i = j

DeleteDocs(table, ids) == {d \in table : d.id \notin Range(ids)}

\* an internalCreateOperations that keeps only the new records
internalCreateOperationsOverwrite(db, ops) ==
    [db EXCEPT !.operations = ops]

internalCreateOperations(db, ops) ==
    [db EXCEPT !.operations = db.operations \o ops]

LogRecord(operation, table, count) ==
    [operation |-> operation, table |-> table, success |-> TRUE, count |-> count]

getEntityIdFromName(db, name) ==
    LET ids == {e.id : e \in {d \in db.entities : d.name = name}}
    IN IF ids = {} THEN NoId ELSE Min(ids)

\* ----------------------------------------------------------- entities.ts
internalCreateEntities(db, ents) ==
    LET n == Len(ents)
        docs == {[id |-> db.nextEntityId + i, name |-> ents[i].name,
                  entityType |-> ents[i].entityType,
                  observations |-> ents[i].observations] : i \in 1..n}
        results == [i \in 1..n |->
                      [success |-> TRUE, name |-> ents[i].name,
                       id |-> db.nextEntityId + i, reason |-> "", existing |-> NoId]]
        db1 == [db EXCEPT !.entities = db.entities \cup docs,
                          !.nextEntityId = db.nextEntityId + n]
    IN [db |-> internalCreateOperations(db1, <<LogRecord("create", "entities", n)>>),
        results |-> results, raised |-> FALSE]

\* an internalDeleteEntities that empties the table
internalDeleteEntitiesAll(db, ids) ==
    [db |-> internalCreateOperations(
                [db EXCEPT !.entities = {}],
                <<LogRecord("delete", "entities", Len(ids))>>),
     raised |-> FALSE]

internalDeleteEntities(db, ids) ==
    IF ~DeleteOk(db.entities, ids)
    THEN [db |-> db, raised |-> TRUE]
    ELSE [db |-> internalCreateOperations(
                    [db EXCEPT !.entities = DeleteDocs(db.entities, ids)],
                    <<LogRecord("delete", "entities", Len(ids))>>),
          raised |-> FALSE]

\* a createEntities that looks no name up
IsNewNameUnchecked(db, entity) == TRUE

IsNewName(db, entity) == getEntityIdFromName(db, entity.name) = NoId

\* a createEntities that gives the whole batch up at the first stored name
NewEntitiesAllOrNothing(db, batch) ==
    IF \E i \in 1..Len(batch) : ~IsNewName(db, batch[i]) THEN <<>> ELSE batch

\* newEntities after the loop over args.entities
NewEntities(db, batch) == SelectSeq(batch, LAMBDA e : IsNewName(db, e))

createEntities(db, batch) ==
    LET newEntities == NewEntities(db, batch)
        existing == SelectSeq(batch, LAMBDA e : ~IsNewName(db, e))
        results == [i \in 1..Len(existing) |->
                      [success |-> FALSE, name |-> existing[i].name, id |-> NoId,
                       reason |-> "already exists",
                       existing |-> getEntityIdFromName(db, existing[i].name)]]
    IN IF newEntities = <<>>
       THEN [db |-> db, results |-> results, raised |-> FALSE]
       ELSE LET created == internalCreateEntities(db, newEntities)
            IN [db |-> created.db, results |-> results \o created.results,
                raised |-> FALSE]

\* ---------------------------------------------------------- knowledge.ts
\* an internalDeleteKnowledge that writes its record and deletes nothing
internalDeleteKnowledgeNone(db, ids) ==
    [db |-> internalCreateOperations(
                db, <<LogRecord("delete", "knowledge", Len(ids))>>),
     raised |-> FALSE]

internalDeleteKnowledge(db, ids) ==
    IF ~DeleteOk(db.knowledge, ids)
    THEN [db |-> db, raised |-> TRUE]
    ELSE [db |-> internalCreateOperations(
                    [db EXCEPT !.knowledge = DeleteDocs(db.knowledge, ids)],
                    <<LogRecord("delete", "knowledge", Len(ids))>>),
          raised |-> FALSE]

\* ---------------------------------------------------------- relations.ts
EntityName(name) == [name |-> name]
EntityRef(id) == [id |-> id]

internalCreateRelations(db, rels) ==
    LET n == Len(rels)
        docs == [i \in 1..n |->
                   [id |-> db.nextRelationId + i, from |-> rels[i].from,
                    to |-> rels[i].to, relationType |-> rels[i].relationType]]
        db1 == [db EXCEPT !.relations = db.relations \cup Range(docs),
                          !.nextRelationId = db.nextRelationId + n]
    IN [db |-> internalCreateOperations(db1, <<LogRecord("create", "relations", n)>>),
        docs |-> docs]

internalDeleteRelations(db, ids) ==
    IF ~DeleteOk(db.relations, ids)
    THEN [db |-> db, raised |-> TRUE]
    ELSE [db |-> internalCreateOperations(
                    [db EXCEPT !.relations = DeleteDocs(db.relations, ids)],
                    <<LogRecord("delete", "relations", Len(ids))>>),
          raised |-> FALSE]

\* a lookup that never finds the entity's knowledge document
FirstKnowledgeIdNone(db, entityId) == NoId

\* .withIndex("by_entity", ...).first()
FirstKnowledgeId(db, entityId) ==
    LET ids == {k.id : k \in {d \in db.knowledge : d.entity = entityId}}
    IN IF ids = {} THEN NoId ELSE Min(ids)

\* an attach that appends the ids to the stored array as they come
AttachRelationIdsAppended(db, entityId, relationIds) ==
    LET kid == FirstKnowledgeId(db, entityId)
    IN IF kid # NoId
       THEN [db EXCEPT !.knowledge =
                {IF k.id = kid
                 THEN [k EXCEPT !.relations = k.relations \o relationIds]
                 ELSE k : k \in db.knowledge}]
       ELSE [db EXCEPT !.knowledge = db.knowledge \cup
                {[id |-> db.nextKnowledgeId + 1, entity |-> entityId,
                  relations |-> relationIds]},
                       !.nextKnowledgeId = db.nextKnowledgeId + 1]

\* fetch the entity's knowledge document and add the ids to it, or insert one
AttachRelationIds(db, entityId, relationIds) ==
    LET kid == FirstKnowledgeId(db, entityId)
    IN IF kid # NoId
       THEN [db EXCEPT !.knowledge =
                {IF k.id = kid
                 THEN [k EXCEPT !.relations = Dedup(k.relations \o relationIds)]
                 ELSE k : k \in db.knowledge}]
       ELSE [db EXCEPT !.knowledge = db.knowledge \cup
                {[id |-> db.nextKnowledgeId + 1, entity |-> entityId,
                  relations |-> relationIds]},
                       !.nextKnowledgeId = db.nextKnowledgeId + 1]

RelationIdsFrom(rels, entityId) ==
    MapSeq(SelectSeq(rels, LAMBDA r : r.from = entityId), LAMBDA r : r.id)

RelationIdsTo(rels, entityId) ==
    MapSeq(SelectSeq(rels, LAMBDA r : r.to = entityId), LAMBDA r : r.id)

RECURSIVE ProcessFromEntities(_, _, _, _)
\* the loop over fromEntities; done is results.length before the iteration
ProcessFromEntities(db, rels, fromEntities, done) ==
    IF fromEntities = <<>> THEN db
    ELSE LET attached == AttachRelationIds(db, Head(fromEntities),
                                           RelationIdsFrom(rels, Head(fromEntities)))
             logged == internalCreateOperations(
                           attached, <<LogRecord("create", "knowledge", done + 1)>>)
         IN ProcessFromEntities(logged, rels, Tail(fromEntities), done + 1)

\* the entities the loop over toEntities does not skip
ToEntitiesToProcess(fromEntities, toEntities) ==
    SelectSeq(toEntities, LAMBDA e : e \notin Range(fromEntities))

RECURSIVE ProcessToEntities(_, _, _)
ProcessToEntities(db, rels, toEntities) ==
    IF toEntities = <<>> THEN db
    ELSE ProcessToEntities(
             AttachRelationIds(db, Head(toEntities),
                               RelationIdsTo(rels, Head(toEntities))),
             rels, Tail(toEntities))

updateKnowledgeWithNewRelations(db, rels) ==
    LET fromEntities == Dedup(MapSeq(rels, LAMBDA r : r.from))
        toEntities == Dedup(MapSeq(rels, LAMBDA r : r.to))
    IN ProcessToEntities(ProcessFromEntities(db, rels, fromEntities, 0), rels,
                         ToEntitiesToProcess(fromEntities, toEntities))

\* the by_from scan and find(): the oldest stored relation with the tuple
FindRelationId(db, fromId, toId, relationType) ==
    LET ids == {r.id : r \in {d \in db.relations :
                   d.from = fromId /\ d.to = toId /\ d.relationType = relationType}}
    IN IF ids = {} THEN NoId ELSE Min(ids)

\* the verdict of constructValidRelations on one item
RelationItemReason(db, rel) ==
    LET fromId == getEntityIdFromName(db, rel.from)
        toId == getEntityIdFromName(db, rel.to)
    IN IF fromId = NoId THEN "Source entity not found"
       ELSE IF toId = NoId THEN "Target entity not found"
       ELSE IF FindRelationId(db, fromId, toId, rel.relationType) # NoId
            THEN "already exists"
       ELSE ""

constructValidRelations(db, batch) ==
    LET invalid == SelectSeq(batch, LAMBDA rel : RelationItemReason(db, rel) # "")
        valid == SelectSeq(batch, LAMBDA rel : RelationItemReason(db, rel) = "")
    IN [invalidResults |-> [i \in 1..Len(invalid) |->
            [success |-> FALSE, from |-> EntityName(invalid[i].from),
             to |-> EntityName(invalid[i].to),
             relationType |-> invalid[i].relationType,
             reason |-> RelationItemReason(db, invalid[i]),
             relationId |->
                 IF RelationItemReason(db, invalid[i]) = "already exists"
                 THEN FindRelationId(db, getEntityIdFromName(db, invalid[i].from),
                                     getEntityIdFromName(db, invalid[i].to),
                                     invalid[i].relationType)
                 ELSE NoId]],
        relationsToCreate |-> [i \in 1..Len(valid) |->
            [from |-> getEntityIdFromName(db, valid[i].from),
             to |-> getEntityIdFromName(db, valid[i].to),
             relationType |-> valid[i].relationType]]]

\* a createRelations that goes on to insert the valid items
RejectsBatchNever(invalidResults) == FALSE

\* whether createRelations stops at the invalid results
RejectsBatch(invalidResults) == Len(invalidResults) > 0

createRelations(db, batch) ==
    LET checked == constructValidRelations(db, batch)
    IN IF RejectsBatch(checked.invalidResults)
       THEN [db |-> db, results |-> checked.invalidResults, raised |-> FALSE]
       ELSE LET created == internalCreateRelations(db, checked.relationsToCreate)
                results == [i \in 1..Len(created.docs) |->
                    [success |-> TRUE, from |-> EntityRef(created.docs[i].from),
                     to |-> EntityRef(created.docs[i].to),
                     relationType |-> created.docs[i].relationType,
                     reason |-> "", relationId |-> created.docs[i].id]]
            IN [db |-> updateKnowledgeWithNewRelations(created.db, created.docs),
                results |-> results, raised |-> FALSE]

\* deleteRelations starts one async handler per item (Promise.all over
\* relations.map).  A handler runs from one await to the next without
\* interruption; between awaits the handlers of the batch interleave in an
\* order the runtime chooses.  pc names the await a handler stands at.
DeleteRelationResult(item, success, reason) ==
    [success |-> success, from |-> item.from, to |-> item.to,
     relationType |-> item.relationType, reason |-> reason]

\* the part of a handler before its first await: the lookup in allEntities
StartDeleteHandler(db, item) ==
    LET sourceId == getEntityIdFromName(db, item.from)
        targetId == getEntityIdFromName(db, item.to)
    IN IF sourceId = NoId \/ targetId = NoId
       THEN [pc |-> "done", item |-> item, source |-> sourceId, target |-> targetId,
             relation |-> NoId, entries |-> {},
             result |-> DeleteRelationResult(item, FALSE, "One or both entities not found")]
       ELSE [pc |-> "find", item |-> item, source |-> sourceId, target |-> targetId,
             relation |-> NoId, entries |-> {},
             result |-> DeleteRelationResult(item, FALSE, "")]

\* knowledge.relations.filter(relId => relId !== existingRelation._id), patched
\* into every knowledge entry the handler read
PatchedKnowledge(db, h) ==
    {IF \E e \in h.entries : e.id = k.id
     THEN [k EXCEPT !.relations =
              SelectSeq(DocById(h.entries, k.id).relations,
                        LAMBDA relId : relId # h.relation)]
     ELSE k : k \in db.knowledge}

\* one handler runs from the await it stands at to its next await
StepDeleteHandler(db, h) ==
    CASE h.pc = "find" ->
           LET relId == FindRelationId(db, h.source, h.target, h.item.relationType)
           IN IF relId = NoId
              THEN [db |-> db, raised |-> FALSE,
                    h |-> [h EXCEPT !.pc = "done",
                              !.result = DeleteRelationResult(h.item, FALSE, "Relation not found")]]
              ELSE [db |-> db, raised |-> FALSE,
                    h |-> [h EXCEPT !.pc = "read", !.relation = relId]]
      [] h.pc = "read" ->
           [db |-> db, raised |-> FALSE,
            h |-> [h EXCEPT !.pc = "patch",
                      !.entries = {k \in db.knowledge : k.entity = h.source}]]
      [] h.pc = "patch" ->
           IF \E e \in h.entries : \A k \in db.knowledge : k.id # e.id
           THEN [db |-> db, raised |-> TRUE, h |-> h]
           ELSE [db |-> [db EXCEPT !.knowledge = PatchedKnowledge(db, h)],
                 raised |-> FALSE, h |-> [h EXCEPT !.pc = "delete"]]
      [] h.pc = "delete" ->
           IF ~DeleteOk(db.relations, <<h.relation>>)
           THEN [db |-> db, raised |-> TRUE, h |-> h]
           ELSE [db |-> [db EXCEPT !.relations = DeleteDocs(db.relations, <<h.relation>>)],
                 raised |-> FALSE,
                 h |-> [h EXCEPT !.pc = "done",
                           !.result = DeleteRelationResult(h.item, TRUE, "")]]

\* the handlers the runtime may resume next
Runnable(handlers) == {i \in 1..Len(handlers) : handlers[i].pc # "done"}

\* a batch in flight is finished when a handler has thrown or all are done
Finished(run) == run.raised \/ Runnable(run.handlers) = {}

\* the states the batch can be in after the runtime resumes one handler
ResumeOne(run) ==
    {LET step == StepDeleteHandler(run.db, run.handlers[i])
     IN IF step.raised
        THEN [db |-> run.db, handlers |-> run.handlers, raised |-> TRUE]
        ELSE [db |-> step.db, handlers |-> [run.handlers EXCEPT ![i] = step.h],
              raised |-> FALSE]
     : i \in Runnable(run.handlers)}

RECURSIVE RunDeleteHandlers(_)
\* every finished state of the batch, over the orders in which the handlers resume
RunDeleteHandlers(runs) ==
    IF \A run \in runs : Finished(run) THEN runs
    ELSE RunDeleteHandlers({run \in runs : Finished(run)}
             \cup UNION {ResumeOne(run) : run \in {r \in runs : ~Finished(r)}})

deleteRelations(db, batch) ==
    {[db |-> run.db, raised |-> run.raised,
      results |-> IF run.raised THEN <<>>
                  ELSE MapSeq(run.handlers, LAMBDA h : h.result)]
     : run \in RunDeleteHandlers(
           {[db |-> db, raised |-> FALSE,
             handlers |-> MapSeq(batch, LAMBDA item : StartDeleteHandler(db, item))]})}

\* ------------------------------------------------- entities.ts, continued
\* .withIndex("by_entity", ...).unique() throws when two entries match
KnowledgeEntriesOf(db, entityId) == {k \in db.knowledge : k.entity = entityId}

\* a deleteEntities that takes every name of the batch as found
FoundNamesAll(db, names) == names

\* the names of the batch whose entity exists
FoundNames(db, names) ==
    SelectSeq(names, LAMBDA n : getEntityIdFromName(db, n) # NoId)

\* the found names whose entity has a knowledge entry (the others "continue")
NamesWithEntry(db, names) ==
    SelectSeq(FoundNames(db, names),
              LAMBDA n : KnowledgeEntriesOf(db, getEntityIdFromName(db, n)) # {})

EntryOfName(db, name) ==
    CHOOSE k \in KnowledgeEntriesOf(db, getEntityIdFromName(db, name)) : TRUE

RECURSIVE Flatten(_)
Flatten(ss) == IF ss = <<>> THEN <<>> ELSE Head(ss) \o Flatten(Tail(ss))

\* the results the loop of deleteEntities pushes
DeleteEntitiesResults(db, names) ==
    LET reported == SelectSeq(names,
            LAMBDA n : getEntityIdFromName(db, n) = NoId
                       \/ KnowledgeEntriesOf(db, getEntityIdFromName(db, n)) # {})
    IN [i \in 1..Len(reported) |->
          IF getEntityIdFromName(db, reported[i]) = NoId
          THEN [success |-> FALSE, name |-> reported[i], reason |-> "Entity not found",
                relationsRemoved |-> 0]
          ELSE [success |-> TRUE, name |-> reported[i], reason |-> "",
                relationsRemoved |-> Len(EntryOfName(db, reported[i]).relations)]]

\* a relationsToDeleteSet that holds every stored relation
RelationsToDeleteAll(db, names) ==
    SelectSeq([i \in 1..db.nextRelationId |-> i],
              LAMBDA id : \E r \in db.relations : r.id = id)

\* relationsToDeleteSet, in insertion order
RelationsToDelete(db, names) ==
    Dedup(Flatten(MapSeq(NamesWithEntry(db, names),
                         LAMBDA n : EntryOfName(db, n).relations)))

\* a cascade that deletes the collected relations before the knowledge entries
deleteEntitiesRelationsFirst(db, names) ==
    LET entitiesToDelete == MapSeq(FoundNames(db, names),
                                   LAMBDA n : getEntityIdFromName(db, n))
        knowledgeToDelete == MapSeq(NamesWithEntry(db, names),
                                    LAMBDA n : EntryOfName(db, n).id)
        failed == [db |-> db, results |-> <<>>, raised |-> TRUE]
    IN IF \E i \in 1..Len(entitiesToDelete) :
              Cardinality(KnowledgeEntriesOf(db, entitiesToDelete[i])) > 1
       THEN failed
       ELSE LET r == internalDeleteRelations(db, RelationsToDelete(db, names))
            IN IF r.raised THEN failed
               ELSE LET k == internalDeleteKnowledge(r.db, knowledgeToDelete)
                    IN IF k.raised THEN failed
                       ELSE LET e == internalDeleteEntities(k.db, entitiesToDelete)
                            IN IF e.raised THEN failed
                               ELSE [db |-> e.db,
                                     results |-> DeleteEntitiesResults(db, names),
                                     raised |-> FALSE]

deleteEntities(db, names) ==
    LET entitiesToDelete == MapSeq(FoundNames(db, names),
                                   LAMBDA n : getEntityIdFromName(db, n))
        knowledgeToDelete == MapSeq(NamesWithEntry(db, names),
                                    LAMBDA n : EntryOfName(db, n).id)
        failed == [db |-> db, results |-> <<>>, raised |-> TRUE]
    IN IF \E i \in 1..Len(entitiesToDelete) :
              Cardinality(KnowledgeEntriesOf(db, entitiesToDelete[i])) > 1
       THEN failed
       ELSE LET k == internalDeleteKnowledge(db, knowledgeToDelete)
            IN IF k.raised THEN failed
               ELSE LET r == internalDeleteRelations(k.db, RelationsToDelete(db, names))
                    IN IF r.raised THEN failed
                       ELSE LET e == internalDeleteEntities(r.db, entitiesToDelete)
                            IN IF e.raised THEN failed
                               ELSE [db |-> e.db,
                                     results |-> DeleteEntitiesResults(db, names),
                                     raised |-> FALSE]

\* ctx.db.patch(entity._id, {observations: ...})
PatchObservations(db, entityId, observations) ==
    [db EXCEPT !.entities =
        {IF e.id = entityId THEN [e EXCEPT !.observations = observations] ELSE e
         : e \in db.entities}]

\* an addObservations that appends the contents to the stored list
AddedToAppended(observations, contents) == observations \o contents

\* Array.from(currentObservations) after the loop over item.contents
AddedTo(observations, contents) == Dedup(observations \o contents)

\* newObservations: the contents that were not yet in the set, once each
NewObservations(observations, contents) ==
    Dedup(SelectSeq(contents, LAMBDA o : o \notin Range(observations)))

RECURSIVE addObservations(_, _)
addObservations(db, items) ==
    IF items = <<>> THEN [db |-> db, results |-> <<>>, raised |-> FALSE]
    ELSE LET item == Head(items)
             entityId == getEntityIdFromName(db, item.entityName)
             stored == DocById(db.entities, entityId).observations
             db1 == IF entityId = NoId THEN db
                    ELSE PatchObservations(db, entityId, AddedTo(stored, item.contents))
             result == IF entityId = NoId
                       THEN [success |-> FALSE, name |-> item.entityName,
                             reason |-> "Entity not found", addedObservations |-> <<>>]
                       ELSE [success |-> TRUE, name |-> item.entityName, reason |-> "",
                             addedObservations |-> NewObservations(stored, item.contents)]
             rest == addObservations(db1, Tail(items))
         IN [db |-> rest.db, results |-> <<result>> \o rest.results, raised |-> FALSE]

\* a deleteObservations that keeps nothing of the stored list
RemovedFromAll(observations, deleted) == <<>>

\* Array.from(currentObservations) after the deletions
RemovedFrom(observations, deleted) ==
    SelectSeq(Dedup(observations), LAMBDA o : o \notin Range(deleted))

RECURSIVE deleteObservations(_, _)
deleteObservations(db, items) ==
    IF items = <<>> THEN [db |-> db, results |-> <<>>, raised |-> FALSE]
    ELSE LET item == Head(items)
             entityId == getEntityIdFromName(db, item.entityName)
             stored == DocById(db.entities, entityId).observations
             db1 == IF entityId = NoId THEN db
                    ELSE PatchObservations(db, entityId,
                                           RemovedFrom(stored, item.observations))
             result == IF entityId = NoId
                       THEN [success |-> FALSE, name |-> item.entityName,
                             reason |-> "Entity not found", observationsRemoved |-> 0]
                       ELSE [success |-> TRUE, name |-> item.entityName, reason |-> "",
                             observationsRemoved |->
                                 Cardinality(Range(stored) \cap Range(item.observations))]
             rest == deleteObservations(db1, Tail(items))
         IN [db |-> rest.db, results |-> <<result>> \o rest.results, raised |-> FALSE]

\* ------------------------------------------------------------- the calls
Batches(S) == UNION {[1..n -> S] : n \in 1..MaxBatch}

ObservationLists == UNION {[1..n -> ObservationValues] : n \in 0..MaxObs}

EntityInputs(obs) == [name : Names, entityType : EntityTypes, observations : obs]

WithinBounds(db) ==
    /\ db.nextEntityId <= MaxEntities
    /\ db.nextRelationId <= MaxRelations
    /\ Len(db.operations) <= MaxLog

NoCall == [op |-> "none", args |-> [none |-> <<>>], results |-> <<>>, raised |-> FALSE]

\* The transaction of one mutation call: commit the writes, or keep none.  The
\* call's outcome stays in last until the caller has taken it, and the next
\* call starts after that.
Commit(op, args, out) ==
    /\ WithinBounds(out.db)
    /\ last' = [op |-> op, args |-> args, results |-> out.results, raised |-> out.raised]
    /\ IF out.raised
       THEN UNCHANGED <<entities, relations, knowledge, operations,
                        nextEntityId, nextRelationId, nextKnowledgeId>>
       ELSE /\ entities' = out.db.entities
            /\ relations' = out.db.relations
            /\ knowledge' = out.db.knowledge
            /\ operations' = out.db.operations
            /\ nextEntityId' = out.db.nextEntityId
            /\ nextRelationId' = out.db.nextRelationId
            /\ nextKnowledgeId' = out.db.nextKnowledgeId

CreateEntitiesCall(batch) ==
    /\ last = NoCall
    /\ Commit("createEntities", [entities |-> batch], createEntities(Db, batch))

CreateRelationsCall(batch) ==
    /\ last = NoCall
    /\ Commit("createRelations", [relations |-> batch], createRelations(Db, batch))

DeleteRelationsCall(batch) ==
    /\ last = NoCall
    /\ \E out \in deleteRelations(Db, batch) :
           Commit("deleteRelations", [relations |-> batch], out)

DeleteEntitiesCall(names) ==
    /\ last = NoCall
    /\ Commit("deleteEntities", [entityNames |-> names], deleteEntities(Db, names))

AddObservationsCall(items) ==
    /\ last = NoCall
    /\ Commit("addObservations", [observations |-> items], addObservations(Db, items))

DeleteObservationsCall(items) ==
    /\ last = NoCall
    /\ Commit("deleteObservations", [deletions |-> items], deleteObservations(Db, items))

\* the caller takes the outcome of its call (await ctx.runMutation(...))
Respond ==
    /\ last # NoCall
    /\ last' = NoCall
    /\ UNCHANGED <<entities, relations, knowledge, operations,
                   nextEntityId, nextRelationId, nextKnowledgeId>>

RelationInputs == [from : Names, to : Names, relationType : RelationTypes]

AddObservationInputs == [entityName : Names, contents : ObservationLists]

DeleteObservationInputs == [entityName : Names, observations : ObservationLists]

Init ==
    /\ entities = {}
    /\ relations = {}
    /\ knowledge = {}
    /\ operations = <<>>
    /\ nextEntityId = 0
    /\ nextRelationId = 0
    /\ nextKnowledgeId = 0
    /\ last = NoCall

\* the graph mutations: entities, relations and the knowledge index
Next ==
    \/ \E batch \in Batches(EntityInputs({<<>>})) : CreateEntitiesCall(batch)
    \/ \E batch \in Batches(RelationInputs) : CreateRelationsCall(batch)
    \/ \E batch \in Batches(RelationInputs) : DeleteRelationsCall(batch)
    \/ \E names \in Batches(Names) : DeleteEntitiesCall(names)
    \/ Respond

Spec == Init /\ [][Next]_vars

\* the entity store: entities and their observations
NextObs ==
    \/ \E batch \in Batches(EntityInputs(ObservationLists)) : CreateEntitiesCall(batch)
    \/ \E items \in Batches(AddObservationInputs) : AddObservationsCall(items)
    \/ \E items \in Batches(DeleteObservationInputs) : DeleteObservationsCall(items)
    \/ Respond

SpecObs == Init /\ [][NextObs]_vars

\* ------------------------------------------------- knowledge.ts, queries
\* The queries compare strings character by character, so here a string is the
\* sequence of its characters.
LowerChar(c) == CASE c = "A" -> "a" [] c = "B" -> "b" [] OTHER -> c

\* a toLowerCase that leaves the string as it is
ToLowerCaseSame(str) == str

ToLowerCase(str) == [i \in 1..Len(str) |-> LowerChar(str[i])]

\* str.includes(sub)
Includes(str, sub) ==
    \E i \in 0..(Len(str) - Len(sub)) : SubSeq(str, i + 1, i + Len(sub)) = sub

\* !query.trim(): the string is empty or all whitespace
IsBlank(str) == \A i \in 1..Len(str) : str[i] = " "

RECURSIVE InIdOrder(_)
\* .collect(): the documents in creation order
InIdOrder(docs) ==
    IF docs = {} THEN <<>>
    ELSE LET first == CHOOSE d \in docs : \A o \in docs : d.id <= o.id
         IN <<first>> \o InIdOrder(docs \ {first})

NodeOf(entity) ==
    [id |-> entity.id, name |-> entity.name, entityType |-> entity.entityType,
     observations |-> entity.observations]

\* entityMap.get(id)?.name || id
NameOrId(db, id) ==
    IF \E e \in db.entities : e.id = id /\ e.name # <<>>
    THEN EntityName(DocById(db.entities, id).name)
    ELSE EntityRef(id)

EdgeOf(db, relation) ==
    [id |-> relation.id, from |-> NameOrId(db, relation.from),
     to |-> NameOrId(db, relation.to), relationType |-> relation.relationType,
     fromEntityId |-> relation.from, toEntityId |-> relation.to]

\* a filter that keeps the relations with both ends among the ids
RelatedRelationsInner(db, ids) ==
    {rel \in db.relations : rel.from \in ids /\ rel.to \in ids}

\* allRelations.filter(rel => ids.has(rel.from) || ids.has(rel.to))
RelatedRelations(db, ids) ==
    {rel \in db.relations : rel.from \in ids \/ rel.to \in ids}

\* the answer built from the selected entities
GraphOf(db, selected) ==
    IF selected = {} THEN [entities |-> <<>>, relations |-> <<>>]
    ELSE [entities |-> MapSeq(InIdOrder(selected), NodeOf),
          relations |->
              MapSeq(InIdOrder(RelatedRelations(db, {e.id : e \in selected})),
                     LAMBDA rel : EdgeOf(db, rel))]

searchNodes(db, query) ==
    IF IsBlank(query) THEN [entities |-> <<>>, relations |-> <<>>]
    ELSE LET lowered == ToLowerCase(query)
         IN GraphOf(db, {e \in db.entities :
                \/ Includes(ToLowerCase(e.name), lowered)
                \/ Includes(ToLowerCase(e.entityType), lowered)
                \/ \E i \in 1..Len(e.observations) :
                       Includes(ToLowerCase(e.observations[i]), lowered)})

openNodes(db, names) ==
    IF names = <<>> THEN [entities |-> <<>>, relations |-> <<>>]
    ELSE GraphOf(db, {e \in db.entities : e.name \in Range(names)})

\* a query reads the store and writes nothing
QueryCall(op, args, result) ==
    /\ last' = [op |-> op, args |-> args, results |-> result, raised |-> FALSE]
    /\ UNCHANGED <<entities, relations, knowledge, operations,
                   nextEntityId, nextRelationId, nextKnowledgeId>>

SearchNodesCall(query) ==
    /\ last = NoCall
    /\ QueryCall("searchNodes", [query |-> query], searchNodes(Db, query))

OpenNodesCall(names) ==
    /\ last = NoCall
    /\ QueryCall("openNodes", [names |-> names], openNodes(Db, names))

MaxQuery == 2

QueryChars == {"a", "A", "b", "B", " "}

QueryStrings == UNION {[1..n -> QueryChars] : n \in 0..MaxQuery}

QueryNames == {<<"A", "b">>, <<"b", " ">>, <<"a">>}

QueryEntityInputs ==
    [name : QueryNames, entityType : {<<"B">>},
     observations : {<<>>, <<<<"a", "B">>>>}]

QueryRelationInputs == [from : QueryNames, to : QueryNames, relationType : RelationTypes]

\* the graph queries, on stores the mutations have built
NextQuery ==
    \/ \E e \in QueryEntityInputs : CreateEntitiesCall(<<e>>)
    \/ \E r \in QueryRelationInputs : CreateRelationsCall(<<r>>)
    \/ \E n \in QueryNames : DeleteEntitiesCall(<<n>>)
    \/ \E query \in QueryStrings : SearchNodesCall(query)
    \/ \E names \in UNION {[1..n -> QueryNames] : n \in 0..MaxBatch} : OpenNodesCall(names)
    \/ Respond

SpecQuery == Init /\ [][NextQuery]_vars

\* ------------------------------------------------- a caller that retries
\* A caller of deleteEntities that catches the error of a call that raised and
\* calls again with the same names, until a call completes.
RetryPending(args) == [op |-> "retry", args |-> args, results |-> <<>>, raised |-> FALSE]

FailedDelete == last.op = "deleteEntities" /\ last.raised

\* the caller catches the error of the call
CatchFailedDelete ==
    /\ FailedDelete
    /\ last' = RetryPending(last.args)
    /\ UNCHANGED <<entities, relations, knowledge, operations,
                   nextEntityId, nextRelationId, nextKnowledgeId>>

\* and calls deleteEntities again
RetryDelete ==
    /\ last.op = "retry"
    /\ Commit("deleteEntities", last.args, deleteEntities(Db, last.args.entityNames))

\* every other outcome is taken as it is
TakeOutcome ==
    /\ ~FailedDelete
    /\ last.op # "retry"
    /\ Respond

\* the graph mutations, called with one item, and the caller's loop
NextRetry ==
    \/ \E e \in EntityInputs({<<>>}) : CreateEntitiesCall(<<e>>)
    \/ \E r \in RelationInputs : CreateRelationsCall(<<r>>)
    \/ \E r \in RelationInputs : DeleteRelationsCall(<<r>>)
    \/ \E n \in Names : DeleteEntitiesCall(<<n>>)
    \/ TakeOutcome
    \/ CatchFailedDelete
    \/ RetryDelete

\* the caller's loop keeps running: it is never stopped between the catch
\* and the next call
SpecRetry ==
    Init /\ [][NextRetry]_vars /\ WF_vars(CatchFailedDelete) /\ WF_vars(RetryDelete)

\* ----------------------------------------------- operations.ts, reading
DefaultLimit == 100
TakeLimit == 500

\* an optional argument that the caller left out
NoArg == "none"
NoLimit == 0

\* array.slice(0, n)
Slice(s, n) == SubSeq(s, 1, IF n < Len(s) THEN n ELSE Len(s))

\* .order("desc"): the newest record first
NewestFirst(s) == [i \in 1..Len(s) |-> s[Len(s) + 1 - i]]

getRecentOperations(db, limit, table, operation) ==
    LET taken == Slice(NewestFirst(db.operations), TakeLimit)
        ofTable == IF table # NoArg
                   THEN SelectSeq(taken, LAMBDA o : o.table = table) ELSE taken
        ofOperation == IF operation # NoArg
                       THEN SelectSeq(ofTable, LAMBDA o : o.operation = operation)
                       ELSE ofTable
    IN Slice(ofOperation, IF limit # NoLimit THEN limit ELSE DefaultLimit)

GetRecentOperationsCall(limit, table, operation) ==
    /\ last = NoCall
    /\ QueryCall("getRecentOperations",
                 [limit |-> limit, table |-> table, operation |-> operation],
                 getRecentOperations(Db, limit, table, operation))

MaxLimit == 2

\* the graph mutations and the reader of their log
NextLog ==
    \/ \E batch \in Batches(EntityInputs({<<>>})) : CreateEntitiesCall(batch)
    \/ \E batch \in Batches(RelationInputs) : CreateRelationsCall(batch)
    \/ \E batch \in Batches(RelationInputs) : DeleteRelationsCall(batch)
    \/ \E names \in Batches(Names) : DeleteEntitiesCall(names)
    \/ \E limit \in {NoLimit} \cup 1..MaxLimit,
          table \in {NoArg, "entities", "relations", "knowledge"},
          operation \in {NoArg, "create", "delete"} :
           GetRecentOperationsCall(limit, table, operation)
    \/ Respond

SpecLog == Init /\ [][NextLog]_vars

\* ---------------------------------------------------------------- http.ts
\* A request body as request.json() returns it: the kind of the JSON value,
\* and for an object the kind of the value under the array field the route
\* reads ("undefined" when the object has no such field), with the items when
\* that value is an array.
BadRequest == 400
ServerError == 500
StatusOk == 200

MaxHttpBatch == 1

\* the values v with !v
FalsyKinds == {"undefined", "null", "false", "zero", "emptyString"}

FieldKinds == FalsyKinds \cup {"true", "number", "string", "object", "array"}

BodyKinds == {"null", "boolean", "number", "string", "array", "object"}

HttpBatches(S) == UNION {[1..n -> S] : n \in 1..MaxHttpBatch}

\* valid tells whether the array passes the argument validator of the route's
\* mutation (v.array(entityDoc) and the like); the items of an array that does
\* not pass are not looked at by any code and are left out
HttpBodies(S) ==
    [kind : BodyKinds \ {"object"}, field : {"undefined"}, items : {<<>>},
     valid : {TRUE}]
    \cup [kind : {"object"}, field : FieldKinds \ {"array"}, items : {<<>>},
          valid : {TRUE}]
    \cup [kind : {"object"}, field : {"array"}, items : HttpBatches(S), valid : {TRUE}]
    \cup [kind : {"object"}, field : {"array"}, items : {<<>>}, valid : {FALSE}]

\* body.entities and the like: reading a property of null throws a TypeError
ReadThrows(body) == body.kind = "null"

\* the value the property read gives; a number, string, boolean or array has
\* no property of the routes' field names
FieldOf(body) == IF body.kind = "object" THEN body.field ELSE "undefined"

\* !body.entities || !Array.isArray(body.entities)
RejectsBody(body) == FieldOf(body) \in FalsyKinds \/ FieldOf(body) # "array"

HttpResponse(route, body, status, error, results, raised) ==
    [op |-> route, args |-> [body |-> body], results |-> results,
     raised |-> raised, status |-> status, error |-> error]

\* ctx.runMutation throws when the arguments do not pass the mutation's validator
ValidatorThrows(body) == ~body.valid

\* One httpAction.  out is the outcome of the route's mutation on body's
\* array; catches tells whether the route wraps ctx.runMutation in try/catch.
\* An error the handler does not catch leaves the request without a Response
\* of the handler, and the runtime answers 500.
HttpHandler(route, message, catches, body, out) ==
    IF ReadThrows(body)
    THEN /\ last' = HttpResponse(route, body, ServerError, "", <<>>, TRUE)
         /\ UNCHANGED <<entities, relations, knowledge, operations,
                        nextEntityId, nextRelationId, nextKnowledgeId>>
    ELSE IF RejectsBody(body)
    THEN /\ last' = HttpResponse(route, body, BadRequest, message, <<>>, FALSE)
         /\ UNCHANGED <<entities, relations, knowledge, operations,
                        nextEntityId, nextRelationId, nextKnowledgeId>>
    ELSE IF ValidatorThrows(body) \/ out.raised
    THEN /\ last' = HttpResponse(route, body, ServerError,
                                 IF catches THEN "Convex mutation failed" ELSE "",
                                 <<>>, ~catches)
         /\ UNCHANGED <<entities, relations, knowledge, operations,
                        nextEntityId, nextRelationId, nextKnowledgeId>>
    ELSE /\ WithinBounds(out.db)
         /\ last' = HttpResponse(route, body, StatusOk, "", out.results, FALSE)
         /\ entities' = out.db.entities
         /\ relations' = out.db.relations
         /\ knowledge' = out.db.knowledge
         /\ operations' = out.db.operations
         /\ nextEntityId' = out.db.nextEntityId
         /\ nextRelationId' = out.db.nextRelationId
         /\ nextKnowledgeId' = out.db.nextKnowledgeId

HttpPostEntities(body) ==
    /\ last = NoCall
    /\ HttpHandler("POST /entities", "Invalid request body, entities array required",
                   FALSE, body, createEntities(Db, body.items))

HttpPostRelations(body) ==
    /\ last = NoCall
    /\ HttpHandler("POST /relations", "Invalid request body, relations array required",
                   FALSE, body, createRelations(Db, body.items))

HttpPostObservations(body) ==
    /\ last = NoCall
    /\ HttpHandler("POST /observations",
                   "Invalid request body, observations array required",
                   FALSE, body, addObservations(Db, body.items))

HttpDeleteEntities(body) ==
    /\ last = NoCall
    /\ HttpHandler("DELETE /entities",
                   "Invalid request body, entityNames array required",
                   TRUE, body, deleteEntities(Db, body.items))

HttpDeleteObservations(body) ==
    /\ last = NoCall
    /\ HttpHandler("DELETE /observations",
                   "Invalid request body, deletions array required",
                   TRUE, body, deleteObservations(Db, body.items))

HttpDeleteRelations(body) ==
    /\ last = NoCall
    /\ \E out \in deleteRelations(Db, body.items) :
           HttpHandler("DELETE /relations",
                       "Invalid request body, relations array required",
                       TRUE, body, out)

HttpRoutes == {"POST /entities", "POST /relations", "POST /observations",
               "DELETE /entities", "DELETE /observations", "DELETE /relations"}

\* the HTTP API: the six routes that write the store
NextHttp ==
    \/ \E body \in HttpBodies(EntityInputs({<<>>})) : HttpPostEntities(body)
    \/ \E body \in HttpBodies(RelationInputs) : HttpPostRelations(body)
    \/ \E body \in HttpBodies(AddObservationInputs) : HttpPostObservations(body)
    \/ \E body \in HttpBodies(Names) : HttpDeleteEntities(body)
    \/ \E body \in HttpBodies(DeleteObservationInputs) : HttpDeleteObservations(body)
    \/ \E body \in HttpBodies(RelationInputs) : HttpDeleteRelations(body)
    \/ Respond

SpecHttp == Init /\ [][NextHttp]_vars

\* ---------------------------------------------------------------- claims
EntityIds == {e.id : e \in entities}

\* a step that is a call of the mutation op
IsCall(op) == last = NoCall /\ last'.op = op

Completed(op) == IsCall(op) /\ ~last'.raised

Indices(s) == 1..Len(s)

\* C1: every stored relation's from and to are ids of stored entities
NoDanglingRelations ==
    \A r \in relations : r.from \in EntityIds /\ r.to \in EntityIds

\* the relation ids listed by the knowledge entries of an entity
IndexedRelationIds(entityId) ==
    UNION {Range(k.relations) : k \in {d \in knowledge : d.entity = entityId}}

IncidentRelationIds(entityId) ==
    {r.id : r \in {d \in relations : d.from = entityId \/ d.to = entityId}}

\* C2: for every stored entity, the relation ids of its knowledge entry (none
\* when it has no entry) are the ids of the stored relations incident to it
IndexDerivable ==
    \A e \in entities : IndexedRelationIds(e.id) = IncidentRelationIds(e.id)

\* C3: no two stored entities have the same name
UniqueEntityNames ==
    \A e1, e2 \in entities : e1.name = e2.name => e1.id = e2.id

\* C4: no two stored relations have the same (from, to, relationType)
UniqueRelationTuples ==
    \A r1, r2 \in relations :
        (r1.from = r2.from /\ r1.to = r2.to /\ r1.relationType = r2.relationType)
            => r1.id = r2.id

\* C5: when deleteEntities has deleted an entity, no knowledge entry that is
\* left lists a relation that was incident to the deleted entity
CascadeCleansOtherEntries ==
    [][Completed("deleteEntities") =>
          \A b \in entities \ entities' :
              \A k \in knowledge' :
                  Range(k.relations) \cap IncidentRelationIds(b.id) = {}]_vars

\* an item of a createRelations batch that is invalid in the current store: a
\* name that resolves to no entity, or a tuple that is already stored
InvalidRelationItem(item) ==
    \/ \A e \in entities : e.name # item.from
    \/ \A e \in entities : e.name # item.to
    \/ \E r \in relations :
           /\ r.from = getEntityIdFromName(Db, item.from)
           /\ r.to = getEntityIdFromName(Db, item.to)
           /\ r.relationType = item.relationType

\* C6: a createRelations batch with an invalid item inserts no relation and
\* creates or changes no knowledge entry
InvalidItemRejectsBatch ==
    [][(IsCall("createRelations")
          /\ \E i \in Indices(last'.args.relations) :
                 InvalidRelationItem(last'.args.relations[i]))
        => (relations' = relations /\ knowledge' = knowledge)]_vars

\* C6 witness: a rejected batch of two with an item that is valid on its own
RejectedBatchWithValidItem ==
    /\ last.op = "createRelations"
    /\ Len(last.args.relations) = 2
    /\ \E i \in Indices(last.args.relations) :
           InvalidRelationItem(last.args.relations[i])
    /\ \E i \in Indices(last.args.relations) :
           ~InvalidRelationItem(last.args.relations[i])
    /\ relations # {}

\* an item whose tuple is the tuple of a stored relation
DuplicateRelationItem(item) ==
    /\ \E e \in entities : e.name = item.from
    /\ \E e \in entities : e.name = item.to
    /\ InvalidRelationItem(item)

\* C7: the batch [valid relation, duplicate of a stored relation] creates no
\* relation and returns two results, both failures
ValidThenDuplicateFailsBoth ==
    [][(IsCall("createRelations")
          /\ Len(last'.args.relations) = 2
          /\ ~InvalidRelationItem(last'.args.relations[1])
          /\ DuplicateRelationItem(last'.args.relations[2]))
        => (/\ relations' = relations
            /\ Len(last'.results) = 2
            /\ \A i \in Indices(last'.results) : ~last'.results[i].success)]_vars

NamesOf(batch) == {batch[i].name : i \in Indices(batch)}

\* C8: in a createEntities call a name that is already stored gets a failure
\* result that carries the id of a stored entity of that name, no entity of
\* that name is stored or changed, and a name that is not yet stored gets a
\* success result with the id of the entity stored for it
SecondCreateConflicts ==
    [][IsCall("createEntities") =>
          \A n \in NamesOf(last'.args.entities) :
              IF \E e \in entities : e.name = n
              THEN /\ \E i \in Indices(last'.results) :
                          /\ last'.results[i].name = n
                          /\ ~last'.results[i].success
                          /\ \E e \in entities :
                                 e.name = n /\ e.id = last'.results[i].existing
                   /\ \A i \in Indices(last'.results) :
                          last'.results[i].name = n => ~last'.results[i].success
                   /\ {e \in entities' : e.name = n} = {e \in entities : e.name = n}
              ELSE \E i \in Indices(last'.results) :
                          /\ last'.results[i].name = n
                          /\ last'.results[i].success
                          /\ last'.results[i].id \notin EntityIds
                          /\ \E e \in entities' :
                                 e.name = n /\ e.id = last'.results[i].id]_vars

\* C8 witness: a createEntities call answered with the id of the entity that
\* an earlier call stored under the same name
ConflictReported ==
    /\ last.op = "createEntities"
    /\ \E i \in Indices(last.results) :
           /\ ~last.results[i].success
           /\ \E e \in entities :
                  e.id = last.results[i].existing /\ e.name = last.results[i].name

\* C9: a createEntities batch that lists a name that is not stored twice gives
\* one success and one conflict for it and stores one entity of that name
InternalDuplicateOneSuccess ==
    [][IsCall("createEntities") =>
          \A n \in NamesOf(last'.args.entities) :
              (/\ \A e \in entities : e.name # n
               /\ Cardinality({i \in Indices(last'.args.entities) :
                                  last'.args.entities[i].name = n}) = 2)
              => (/\ Cardinality({i \in Indices(last'.results) :
                        last'.results[i].name = n /\ last'.results[i].success}) = 1
                  /\ Cardinality({i \in Indices(last'.results) :
                        last'.results[i].name = n /\ ~last'.results[i].success}) = 1
                  /\ Cardinality({e \in entities' : e.name = n}) = 1)]_vars

\* what an entity document holds besides its id
Fields(e) == [name |-> e.name, entityType |-> e.entityType,
              observations |-> e.observations]

\* the items of an observation batch that name the entity the store resolves
ItemsFor(items, e) ==
    {i \in Indices(items) : getEntityIdFromName(Db, items[i].entityName) = e.id}

SameButObservations(e1, e2) ==
    e1.id = e2.id /\ e1.name = e2.name /\ e1.entityType = e2.entityType

\* C10: in createEntities, addObservations and deleteObservations the items
\* that fail leave the other items of the batch in effect: every new name is
\* stored as given, every observation list of a resolved name is added to
\* (removed from) its entity, and nothing else changes
PartialSuccessBatches ==
    [][/\ IsCall("createEntities") =>
            /\ entities \subseteq entities'
            /\ \A d \in entities' \ entities : d.id \notin EntityIds
            /\ \A v \in Range(last'.args.entities) :
                   Cardinality({d \in entities' \ entities : Fields(d) = v})
                     = IF \E e \in entities : e.name = v.name THEN 0
                       ELSE Cardinality({i \in Indices(last'.args.entities) :
                                            last'.args.entities[i] = v})
            /\ \A d \in entities' \ entities : Fields(d) \in Range(last'.args.entities)
       /\ IsCall("addObservations") =>
            /\ ~last'.raised
            /\ {e.id : e \in entities'} = EntityIds
            /\ \A e \in entities : \E d \in entities' :
                   /\ SameButObservations(e, d)
                   /\ Range(d.observations) = Range(e.observations) \cup
                          UNION {Range(last'.args.observations[i].contents) :
                                    i \in ItemsFor(last'.args.observations, e)}
       /\ IsCall("deleteObservations") =>
            /\ ~last'.raised
            /\ {e.id : e \in entities'} = EntityIds
            /\ \A e \in entities : \E d \in entities' :
                   /\ SameButObservations(e, d)
                   /\ Range(d.observations) = Range(e.observations) \
                          UNION {Range(last'.args.deletions[i].observations) :
                                    i \in ItemsFor(last'.args.deletions, e)}]_vars

\* C10 witness: a batch with a failed item whose other item changed the store
FailedItemBesideAppliedItem ==
    /\ last.op \in {"createEntities", "addObservations"}
    /\ \E i, j \in Indices(last.results) :
           /\ ~last.results[i].success
           /\ last.results[j].success
           /\ \E e \in entities :
                  /\ e.name = last.results[j].name
                  /\ e.observations # <<>>

\* a tuple of names and type that no stored relation between stored entities has
NoSuchRelation(item) ==
    \A r \in relations :
        ~(/\ r.relationType = item.relationType
          /\ \E e \in entities : e.id = r.from /\ e.name = item.from
          /\ \E e \in entities : e.id = r.to /\ e.name = item.to)

NoSuchEntity(name) == \A e \in entities : e.name # name

NotFoundReasons ==
    {"Entity not found", "One or both entities not found", "Relation not found"}

\* C11: a deleteEntities call whose names are stored nowhere, and a
\* deleteRelations call whose tuples are stored nowhere, does not raise,
\* answers every item in turn with a not-found failure, and leaves entities,
\* relations and knowledge as they were (so the next such call finds the same)
NotFoundDeleteIsHarmless ==
    [][/\ (IsCall("deleteEntities")
             /\ \A i \in Indices(last'.args.entityNames) :
                    NoSuchEntity(last'.args.entityNames[i]))
          => /\ ~last'.raised
             /\ Len(last'.results) = Len(last'.args.entityNames)
             /\ \A i \in Indices(last'.results) :
                    /\ ~last'.results[i].success
                    /\ last'.results[i].name = last'.args.entityNames[i]
                    /\ last'.results[i].reason \in NotFoundReasons
             /\ entities' = entities /\ relations' = relations
             /\ knowledge' = knowledge
       /\ (IsCall("deleteRelations")
             /\ \A i \in Indices(last'.args.relations) :
                    NoSuchRelation(last'.args.relations[i]))
          => /\ ~last'.raised
             /\ Len(last'.results) = Len(last'.args.relations)
             /\ \A i \in Indices(last'.results) :
                    /\ ~last'.results[i].success
                    /\ last'.results[i].from = last'.args.relations[i].from
                    /\ last'.results[i].to = last'.args.relations[i].to
                    /\ last'.results[i].reason \in NotFoundReasons
             /\ entities' = entities /\ relations' = relations
             /\ knowledge' = knowledge]_vars

\* C11 witness: deleteEntities answered "not found" for a name whose entity an
\* earlier deleteEntities call deleted
DeletedNameNotFound ==
    /\ last.op = "deleteEntities"
    /\ ~last.raised
    /\ last.results # <<>>
    /\ \A i \in Indices(last.results) : last.results[i].reason = "Entity not found"
    /\ entities = {}
    /\ \E i \in Indices(operations) :
           /\ operations[i].operation = "delete"
           /\ operations[i].table = "entities"
           /\ operations[i].count > 0

\* two stored entities of different names, none ever deleted, whose one
\* relation (the only one ever created, indexed for both) is no longer stored:
\* no deleteEntities call has deleted anything, so deleteRelations removed it
JoinedThenUnjoined ==
    /\ nextEntityId = 2 /\ Cardinality(entities) = 2
    /\ \A e1, e2 \in entities : e1.name = e2.name => e1 = e2
    /\ nextRelationId = 1 /\ relations = {}
    /\ \A e \in entities : KnowledgeEntriesOf(Db, e.id) # {}

\* C12: after createRelations joined two entities by one relation and
\* deleteRelations removed it, a deleteEntities call that names both does not
\* raise, reports success for each name and leaves neither entity stored
DeleteAfterUnrelate ==
    [][(IsCall("deleteEntities") /\ JoinedThenUnjoined
          /\ Range(last'.args.entityNames) = {e.name : e \in entities})
        => (/\ ~last'.raised
            /\ \A n \in Range(last'.args.entityNames) :
                   \E i \in Indices(last'.results) :
                       last'.results[i].name = n /\ last'.results[i].success
            /\ entities' = {})]_vars

NoDuplicates(s) == \A i, j \in Indices(s) : s[i] = s[j] => i = j

Reverse(s) == [i \in Indices(s) |-> s[Len(s) + 1 - i]]

\* the strings an addObservations batch holds for the entity e
ContentsFor(items, e) ==
    UNION {Range(items[i].contents) : i \in ItemsFor(items, e)}

\* C13: addObservations leaves every entity it resolves with its previous
\* observations united with the contents given for it, each string stored
\* once, and the items taken in the opposite order give the same sets
AddObservationsIsUnion ==
    [][IsCall("addObservations") =>
          /\ \A e \in entities :
                 ItemsFor(last'.args.observations, e) # {} =>
                     \E d \in entities' :
                         /\ d.id = e.id
                         /\ Range(d.observations) = Range(e.observations)
                               \cup ContentsFor(last'.args.observations, e)
                         /\ NoDuplicates(d.observations)
          /\ \A d \in entities' :
                 \E r \in addObservations(Db, Reverse(last'.args.observations)).db.entities :
                     r.id = d.id /\ Range(r.observations) = Range(d.observations)]_vars

\* C13 witness: contents that repeat a string were added to an entity that
\* held another string
RepeatedContentsAdded ==
    /\ last.op = "addObservations"
    /\ \E i \in Indices(last.results) :
           /\ last.results[i].success
           /\ ~NoDuplicates(last.args.observations[i].contents)
           /\ last.results[i].addedObservations # <<>>
           /\ \E e \in entities :
                  /\ e.name = last.results[i].name
                  /\ Range(last.args.observations[i].contents) \subseteq Range(e.observations)
                  /\ Range(e.observations) # Range(last.args.observations[i].contents)

\* C14: no stored entity's observations list holds a string twice
NoDuplicateObservations ==
    \A e \in entities : NoDuplicates(e.observations)

\* the strings a deleteObservations batch lists for the entity e
DeletionsFor(items, e) ==
    UNION {Range(items[i].observations) : i \in ItemsFor(items, e)}

\* C15: deleteObservations leaves every entity it resolves with its previous
\* observations minus the strings listed for it, and every item whose name is
\* stored reports success, also when it lists strings the entity does not hold
DeleteObservationsIsDifference ==
    [][IsCall("deleteObservations") =>
          /\ ~last'.raised
          /\ Len(last'.results) = Len(last'.args.deletions)
          /\ \A e \in entities :
                 ItemsFor(last'.args.deletions, e) # {} =>
                     \E d \in entities' :
                         /\ d.id = e.id
                         /\ Range(d.observations) = Range(e.observations)
                               \ DeletionsFor(last'.args.deletions, e)
          /\ \A i \in Indices(last'.args.deletions) :
                 (\E e \in entities : e.name = last'.args.deletions[i].entityName)
                     => last'.results[i].success]_vars

\* C15 witness: an item that lists a string its entity held and one it did
\* not hold reported success, and the entity keeps what was not listed
MissingStringIgnored ==
    /\ last.op = "deleteObservations"
    /\ \E i \in Indices(last.results) :
           /\ last.results[i].success
           /\ last.results[i].observationsRemoved = 1
           /\ Cardinality(Range(last.args.deletions[i].observations)) = 2
           /\ \E e \in entities :
                  e.name = last.results[i].name /\ e.observations = <<>>

\* C16: createEntities returns one result per input item and the i-th result
\* is about the i-th item: its name, and success exactly when the name was
\* not stored
CreateResultsInInputOrder ==
    [][IsCall("createEntities") =>
          /\ Len(last'.results) = Len(last'.args.entities)
          /\ \A i \in Indices(last'.results) :
                 /\ last'.results[i].name = last'.args.entities[i].name
                 /\ last'.results[i].success
                        <=> NoSuchEntity(last'.args.entities[i].name)]_vars

\* C17: a deleteEntities call that returns gives one result per input name,
\* in input order: success for a stored name, not-found failure for the others
DeleteResultsPerName ==
    [][Completed("deleteEntities") =>
          /\ Len(last'.results) = Len(last'.args.entityNames)
          /\ \A i \in Indices(last'.results) :
                 /\ last'.results[i].name = last'.args.entityNames[i]
                 /\ IF NoSuchEntity(last'.args.entityNames[i])
                    THEN /\ ~last'.results[i].success
                         /\ last'.results[i].reason = "Entity not found"
                    ELSE last'.results[i].success]_vars

\* the stored relations an item of a deleteRelations batch names
RelationsNamed(item) ==
    {r \in relations :
        /\ r.relationType = item.relationType
        /\ r.from = getEntityIdFromName(Db, item.from)
        /\ r.to = getEntityIdFromName(Db, item.to)}

\* C18: a deleteRelations batch that names one stored relation twice does not
\* raise, returns two results and removes that relation and no other
DuplicateDeleteOnce ==
    [][(IsCall("deleteRelations")
          /\ Len(last'.args.relations) = 2
          /\ last'.args.relations[1] = last'.args.relations[2]
          /\ Cardinality(RelationsNamed(last'.args.relations[1])) = 1)
        => (/\ ~last'.raised
            /\ Len(last'.results) = 2
            /\ relations' = relations \ RelationsNamed(last'.args.relations[1]))]_vars

\* C19: deleteEntities leaves every entity whose name the call does not list
\* stored as it was
DeleteEntitiesFrame ==
    [][IsCall("deleteEntities") =>
          \A e \in entities :
              e.name \notin Range(last'.args.entityNames) => e \in entities']_vars

\* C19 witness: deleteEntities removed an entity with its relation, and the
\* entity at the other end, which the call did not name, is stored
OtherEndKept ==
    /\ last.op = "deleteEntities"
    /\ ~last.raised
    /\ \E i \in Indices(last.results) :
           last.results[i].success /\ last.results[i].relationsRemoved > 0
    /\ \E e \in entities :
           /\ e.name \notin Range(last.args.entityNames)
           /\ KnowledgeEntriesOf(Db, e.id) # {}

\* a body whose array field is missing or is no array
MalformedBody(body) == body.kind # "object" \/ body.field # "array"

HttpRequestStep == last = NoCall /\ last'.op \in HttpRoutes

StoreUnchanged ==
    UNCHANGED <<entities, relations, knowledge, operations,
                nextEntityId, nextRelationId, nextKnowledgeId>>

\* C20: on each of the six routes a body whose array field is missing or is
\* no array is answered with status 400 and an error message, and the store is
\* left unchanged
MalformedBodyRejected ==
    [][(HttpRequestStep /\ MalformedBody(last'.args.body))
        => (/\ ~last'.raised
            /\ last'.status = BadRequest
            /\ last'.error # ""
            /\ StoreUnchanged)]_vars

\* the same for the bodies other than null
MalformedNonNullBodyRejected ==
    [][(HttpRequestStep /\ MalformedBody(last'.args.body)
          /\ last'.args.body.kind # "null")
        => (/\ ~last'.raised
            /\ last'.status = BadRequest
            /\ last'.error # ""
            /\ StoreUnchanged)]_vars

\* the error bodies the handlers build in their catch blocks
GenericErrors == {"Convex mutation failed", "Convex query failed"}

\* a request with an array under its field that is not answered with the
\* mutation's result: the mutation the route invoked has raised
MutationRaisedStep ==
    /\ HttpRequestStep
    /\ ~MalformedBody(last'.args.body)
    /\ last'.status # StatusOk

\* C21: when the mutation a route invokes raises, the route's handler itself
\* answers with status 500 and a generic error body
MutationErrorCaught ==
    [][MutationRaisedStep
        => (/\ ~last'.raised
            /\ last'.status = ServerError
            /\ last'.error \in GenericErrors)]_vars

\* two characters that are the same letter, in either case
SameLetter(c, d) ==
    \/ c = d
    \/ {c, d} = {"a", "A"}
    \/ {c, d} = {"b", "B"}

\* sub stands somewhere in str when the case of the letters is ignored
OccursIgnoringCase(sub, str) ==
    \E i \in 0..(Len(str) - Len(sub)) :
        \A j \in 1..Len(sub) : SameLetter(str[i + j], sub[j])

\* the stored entities a search for query is to return
Matching(query) ==
    {e \in entities :
        \/ OccursIgnoringCase(query, e.name)
        \/ OccursIgnoringCase(query, e.entityType)
        \/ \E i \in Indices(e.observations) :
               OccursIgnoringCase(query, e.observations[i])}

\* the answer of a graph query holds exactly the entities of selected, once
\* each and as stored, and exactly the stored relations with an end among them
AnswersWith(answer, selected) ==
    /\ Len(answer.entities) = Cardinality(selected)
    /\ {answer.entities[i] : i \in Indices(answer.entities)}
         = {NodeOf(e) : e \in selected}
    /\ Len(answer.relations) =
         Cardinality({r \in relations :
             \E e \in selected : r.from = e.id \/ r.to = e.id})
    /\ {[id |-> answer.relations[i].id,
         from |-> answer.relations[i].fromEntityId,
         to |-> answer.relations[i].toEntityId,
         relationType |-> answer.relations[i].relationType]
          : i \in Indices(answer.relations)}
         = {r \in relations : \E e \in selected : r.from = e.id \/ r.to = e.id}

\* C22: searchNodes with a query that is not blank returns exactly the
\* entities in whose name, entityType or some observation the query occurs,
\* case ignored, and exactly the stored relations with an end among them
SearchReturnsMatches ==
    [][(IsCall("searchNodes")
          /\ \E i \in Indices(last'.args.query) : last'.args.query[i] # " ")
        => AnswersWith(last'.results, Matching(last'.args.query))]_vars

\* C22 witness: a search found an entity only because case is ignored,
\* returned a relation with it and left another entity out
FoundIgnoringCase ==
    /\ last.op = "searchNodes"
    /\ last.results.relations # <<>>
    /\ Len(last.results.entities) < Cardinality(entities)
    /\ \E i \in Indices(last.results.entities) :
           /\ ~Includes(last.results.entities[i].name, last.args.query)
           /\ ~Includes(last.results.entities[i].entityType, last.args.query)
           /\ last.results.entities[i].observations = <<>>

\* C23: openNodes returns exactly the stored entities whose name is among the
\* names and exactly the stored relations with an end among them
OpenReturnsNamed ==
    [][IsCall("openNodes")
        => AnswersWith(last'.results,
                       {e \in entities : e.name \in Range(last'.args.names)})]_vars

\* C23 witness: openNodes returned a relation whose other end it was not
\* asked for
EdgeToUnnamedNode ==
    /\ last.op = "openNodes"
    /\ \E i \in Indices(last.results.relations) :
           \E e \in entities :
               /\ e.id = last.results.relations[i].toEntityId
               /\ e.name \notin Range(last.args.names)

\* C24: every step leaves the records the operations log held in place and
\* unchanged; a step only adds records after them
LogAppendOnly ==
    [][/\ Len(operations') >= Len(operations)
       /\ SubSeq(operations', 1, Len(operations)) = operations]_vars

\* C24 witness: the log was read after a create and a later delete, and the
\* create record is still its first record
LogReadAfterDelete ==
    /\ last.op = "getRecentOperations"
    /\ last.results # <<>>
    /\ operations[1].operation = "create"
    /\ \E i \in Indices(operations) : operations[i].operation = "delete"

MutationNames == {"createEntities", "addObservations", "deleteObservations",
                  "deleteEntities", "createRelations", "deleteRelations"}

\* C25: every mutation call that completes adds a record to the operations log
EveryMutationLogged ==
    [][(\E op \in MutationNames : Completed(op))
        => Len(operations') > Len(operations)]_vars

\* the database of the next state
DbNext == [entities |-> entities', relations |-> relations', knowledge |-> knowledge',
           operations |-> operations', nextEntityId |-> nextEntityId',
           nextRelationId |-> nextRelationId', nextKnowledgeId |-> nextKnowledgeId']

\* C26: of two deleteEntities calls for the same stored name (no other entity
\* has that name), run one after the other as the transactions are, the first
\* completes and leaves the entity, its relations and its knowledge entry
\* gone, and the second completes and changes nothing of that
ConcurrentDeleteConverges ==
    [][(IsCall("deleteEntities")
          /\ UniqueEntityNames
          /\ Len(last'.args.entityNames) = 1
          /\ ~NoSuchEntity(last'.args.entityNames[1]))
        => LET id == getEntityIdFromName(Db, last'.args.entityNames[1])
               second == deleteEntities(DbNext, last'.args.entityNames)
           IN /\ ~last'.raised
              /\ \A e \in entities' : e.id # id
              /\ \A r \in relations' : r.from # id /\ r.to # id
              /\ \A k \in knowledge' : k.entity # id
              /\ ~second.raised
              /\ second.db.entities = entities'
              /\ second.db.relations = relations'
              /\ second.db.knowledge = knowledge']_vars

\* a deleteEntities call for the one name of the stored entity id has raised
DeleteOfFailed(id) ==
    /\ FailedDelete
    /\ Len(last.args.entityNames) = 1
    /\ getEntityIdFromName(Db, last.args.entityNames[1]) = id

\* the entity id, the relations incident to it and its knowledge entry are gone
Absent(id) ==
    /\ \A e \in entities : e.id # id
    /\ \A r \in relations : r.from # id /\ r.to # id
    /\ \A k \in knowledge : k.entity # id

\* C27: when deleteEntities for the one name of a stored entity has raised and
\* the caller calls again after every call that raises, a state is reached
\* in which the entity, its relations and its knowledge entry are absent
RetryConverges ==
    \A id \in 1..MaxEntities : DeleteOfFailed(id) ~> Absent(id)

\* the relation ids listed by the knowledge entries of an entity in db
IndexedIn(db, entityId) ==
    UNION {Range(k.relations) : k \in {d \in db.knowledge : d.entity = entityId}}

\* every item of the call that has just answered succeeded
AllSucceeded == \A i \in Indices(last'.results) : last'.results[i].success

\* C28: after a createRelations call in which every item succeeded, the id of
\* every relation it created is listed in the knowledge entry of the
\* relation's from entity and in the knowledge entry of its to entity
CreatedIndexedAtBothEnds ==
    [][(Completed("createRelations") /\ AllSucceeded)
        => \A r \in relations' \ relations :
               /\ r.id \in IndexedIn(DbNext, r.from)
               /\ r.id \in IndexedIn(DbNext, r.to)]_vars

\* C29: a relation that a completed deleteRelations call has deleted is listed
\* neither in the knowledge entry of its from entity nor in that of its to
\* entity afterwards
DeletedUnindexedAtBothEnds ==
    [][Completed("deleteRelations")
        => \A r \in relations \ relations' :
               /\ r.id \notin IndexedIn(DbNext, r.from)
               /\ r.id \notin IndexedIn(DbNext, r.to)]_vars

\* C30: when createRelations has created relations and attached them to the
\* knowledge entries, attaching the same relations once more leaves the set
\* of knowledge entries and the relation ids of each as they are, and no
\* entry lists an id twice
AttachIsIdempotent ==
    [][(Completed("createRelations") /\ relations' # relations)
        => LET created == InIdOrder(relations' \ relations)
               again == updateKnowledgeWithNewRelations(DbNext, created)
           IN /\ again.knowledge = knowledge'
              /\ \A k \in again.knowledge : NoDuplicates(k.relations)]_vars

\* C30 witness: createRelations has attached a new relation to a knowledge
\* entry that already listed a relation of an earlier call
AttachedToExistingEntry ==
    /\ last.op = "createRelations"
    /\ ~last.raised
    /\ \E i \in Indices(last.results) :
           /\ last.results[i].success
           /\ \E k \in knowledge :
                  /\ last.results[i].relationId \in Range(k.relations)
                  /\ \E id \in Range(k.relations) :
                         \A j \in Indices(last.results) :
                             last.results[j].relationId # id

\* C31: when a completed deleteRelations call has taken the last relation id
\* out of a knowledge entry, that entry is no longer stored
EmptiedEntryDeleted ==
    [][Completed("deleteRelations")
        => \A k \in knowledge : \A n \in knowledge' :
               (n.id = k.id /\ k.relations # <<>>) => n.relations # <<>>]_vars

\* C33: a completed deleteEntities call that deleted an entity adds exactly
\* one record to the operations log
CascadeLoggedOnce ==
    [][(Completed("deleteEntities") /\ entities' # entities)
        => Len(operations') = Len(operations) + 1]_vars

\* the items of a deleteRelations call that has just answered name two
\* different stored relations with the same source, and both were deleted
TwoFromOneSource ==
    /\ Len(last'.args.relations) = 2
    /\ last'.args.relations[1] # last'.args.relations[2]
    /\ last'.args.relations[1].from = last'.args.relations[2].from
    /\ AllSucceeded

\* C34: when a deleteRelations call has deleted two different relations with
\* the same source, neither id is listed in the knowledge entry of the source
\* afterwards, however the handlers of the two items were interleaved
NoLostUpdate ==
    [][(Completed("deleteRelations") /\ TwoFromOneSource)
        => \A r \in relations \ relations' :
               r.id \notin IndexedIn(DbNext, r.from)]_vars

\* the records a step has added to the operations log
AddedRecords == SubSeq(operations', Len(operations) + 1, Len(operations'))

\* C32: a completed deleteEntities call has done its deletions in the order
\* knowledge entries, then collected relations, then entities, as the records
\* each deletion leaves in the operations log show
CascadeInOrder ==
    [][Completed("deleteEntities")
        => /\ MapSeq(AddedRecords, LAMBDA rec : rec.table)
                  = <<"knowledge", "relations", "entities">>
           /\ \A i \in Indices(AddedRecords) :
                  AddedRecords[i].operation = "delete"]_vars

\* C32 witness: deleteEntities has answered after a cascade that deleted a
\* knowledge entry, a relation and an entity
CascadeDeletedEach ==
    /\ last.op = "deleteEntities"
    /\ ~last.raised
    /\ Len(operations) >= 3
    /\ \A i \in (Len(operations) - 2)..Len(operations) :
           operations[i].operation = "delete" /\ operations[i].count > 0

\* C35: no two stored knowledge entries are for the same entity id
OneEntryPerEntity ==
    \A k1, k2 \in knowledge : k1.entity = k2.entity => k1.id = k2.id

\* C35 witness: a second createRelations call has answered and a knowledge
\* entry lists the relations of both calls
SecondAttachSameEntry ==
    /\ last.op = "createRelations"
    /\ ~last.raised
    /\ Cardinality({i \in Indices(operations) :
                      /\ operations[i].table = "relations"
                      /\ operations[i].operation = "create"}) = 2
    /\ \E k \in knowledge : Len(k.relations) = 2

\* C36: the entity of every stored knowledge entry is a stored entity
KnowledgeEntityExists ==
    \A k \in knowledge : k.entity \in EntityIds

\* C36 witness: deleteEntities has deleted an entity together with its
\* knowledge entry, and the entry of another entity is still stored
EntryDeletedWithEntity ==
    /\ last.op = "deleteEntities"
    /\ ~last.raised
    /\ \E i \in Indices(last.results) :
           last.results[i].success /\ last.results[i].relationsRemoved > 0
    /\ knowledge # {}

\* the entity id belongs to a stored entity whose name is among names
NamedIn(names, entityId) ==
    \E e \in entities : e.id = entityId /\ e.name \in Range(names)

\* C37: a stored relation whose from and to are both not entities named in a
\* deleteEntities call is stored unchanged after the call
DeleteEntitiesKeepsOtherRelations ==
    [][IsCall("deleteEntities")
        => \A r \in relations :
               (/\ ~NamedIn(last'.args.entityNames, r.from)
                /\ ~NamedIn(last'.args.entityNames, r.to))
                   => r \in relations']_vars

\* C37 witness: deleteEntities has deleted an entity with a relation of its
\* own, and a relation between entities the call did not name is stored
UnnamedRelationKept ==
    /\ last.op = "deleteEntities"
    /\ ~last.raised
    /\ \E i \in Indices(last.results) :
           last.results[i].success /\ last.results[i].relationsRemoved > 0
    /\ \E r \in relations :
           \E e1, e2 \in entities :
               /\ e1.id = r.from /\ e1.name \notin Range(last.args.entityNames)
               /\ e2.id = r.to /\ e2.name \notin Range(last.args.entityNames)

\* C38: a deleteEntities call that lists the name of a stored entity twice
\* completes, and afterwards the entity, its knowledge entry and the
\* relations incident to it are gone
DuplicateNameDeletedOnce ==
    [][(/\ IsCall("deleteEntities")
        /\ Len(last'.args.entityNames) = 2
        /\ last'.args.entityNames[1] = last'.args.entityNames[2]
        /\ ~NoSuchEntity(last'.args.entityNames[1]))
        => LET id == getEntityIdFromName(Db, last'.args.entityNames[1])
           IN /\ ~last'.raised
              /\ \A e \in entities' : e.id # id
              /\ \A k \in knowledge' : k.entity # id]_vars

\* C39: after a completed deleteEntities call no entity that was stored under
\* a name of the call is stored any more
NamedEntitiesGone ==
    [][Completed("deleteEntities")
        => \A e \in entities :
               e.name \in Range(last'.args.entityNames)
                   => \A n \in entities' : n.id # e.id]_vars

\* C39 with no two stored entities of one name
NamedEntitiesGoneUniqueNames ==
    [][(Completed("deleteEntities") /\ UniqueEntityNames)
        => \A e \in entities :
               e.name \in Range(last'.args.entityNames)
                   => \A n \in entities' : n.id # e.id]_vars
====
